---- MODULE Spec2Model ----
(***************************************************************************)
(* Orchestration core of the movie pipeline front end: the four stage      *)
(* workflow composables (character, scene, shot, transition), the task     *)
(* poller they are built on, and the stage controller of useMovieWorkflow. *)
(***************************************************************************)
EXTENDS Integers, Sequences, FiniteSets, Bags, TLC

VARIABLES
    characterWorkflow,   \* [characters, extracting, generatingIds, batchGenerating]
    sceneWorkflow,       \* [script, extracting]
    shotWorkflow,        \* [extracting, generatingKeyframes, extractingScenes]
    transitionWorkflow,  \* [transitions, creating, generating, generatingIds]
    currentStep,         \* useMovieWorkflow.currentStep
    calls,               \* bag of the running invocations of workflow operations
    store,               \* the external entity store the loads read
    notice,              \* what the last handler step showed (ElMessage) or threw
    manager,             \* the workflow manager whose operations are exercised
    loadScriptGiven,     \* whether the view hands loadScript to the shot operations
    selectedChapterId,   \* useMovieWorkflow.selectedChapterId
    loading,             \* useMovieWorkflow.loading
    loop,                \* one poll loop of the task poller
    job                  \* backend state of the job that loop polls

vars == <<characterWorkflow, sceneWorkflow, shotWorkflow, transitionWorkflow,
          currentStep, calls, store, notice, manager, loadScriptGiven,
          selectedChapterId, loading, loop, job>>

(***************************************************************************)
(* Bounds                                                                  *)
(***************************************************************************)
NumIds == 2        \* entity ids per collection
MaxCalls == 2      \* invocations that may be outstanding at once
MaxScenes == 2     \* scenes of a script in an enumerated snapshot
MaxShots == 3      \* shots of a scene in an enumerated snapshot
MaxTransitions == 1 \* transitions in an enumerated snapshot
MaxQueries == 6    \* status queries one poll loop may issue
MaxLoadCalls == 1  \* calls that may be outstanding when a job or a delete begins
MaxLoads == 2      \* calls that may be outstanding when loadData begins

Ids == 1..NumIds

(***************************************************************************)
(* JavaScript values                                                       *)
(***************************************************************************)
Null == "null"                 \* null in a string-valued field
NoScript == [null |-> TRUE]    \* script.value === null
Truthy(v) == v \notin {Null, ""}     \* truthiness of a string-valued field
TruthyId(n) == n # 0               \* truthiness of an identifier (0: missing)

\* what a handler shows with ElMessage (or throws), and the counts in its text
NotShown == -1
Notice(kind, success, failed) == [kind |-> kind, success |-> success, failed |-> failed]
NoNotice == Notice("none", NotShown, NotShown)

(***************************************************************************)
(* Shot workflow: allShots                                                 *)
(***************************************************************************)
RECURSIVE FlatMapShots(_)
FlatMapShots(scenes) ==
    IF scenes = <<>> THEN <<>>
    ELSE LET scene == Head(scenes)
             mapped == [i \in 1..Len(scene.shots) |->
                          [id |-> scene.shots[i].id,
                           order_index |-> scene.shots[i].order_index,
                           keyframe_url |-> scene.shots[i].keyframe_url,
                           scene_id |-> scene.id]]
         IN mapped \o FlatMapShots(Tail(scenes))

\* Array.prototype.sort with (a, b) => a.order_index - b.order_index is stable
RECURSIVE InsertByOrder(_, _)
InsertByOrder(x, sorted) ==
    IF sorted = <<>> THEN <<x>>
    ELSE IF Head(sorted).order_index - x.order_index > 0
         THEN <<x>> \o sorted
         ELSE <<Head(sorted)>> \o InsertByOrder(x, Tail(sorted))

RECURSIVE SortByOrder(_)
SortByOrder(s) ==
    IF s = <<>> THEN <<>>
    ELSE InsertByOrder(s[Len(s)], SortByOrder(SubSeq(s, 1, Len(s) - 1)))

\* a slip that reads the shots of the first scene only
allShots_FirstSceneOnly(script) ==
    IF script = NoScript \/ script.scenes = <<>> THEN <<>>
    ELSE SortByOrder(FlatMapShots(<<Head(script.scenes)>>))

allShots(script) ==
    IF script = NoScript THEN <<>>
    ELSE SortByOrder(FlatMapShots(script.scenes))

\* sceneGroups: the scenes that have shots, each with its shots as stored
RECURSIVE GroupScenes(_)
GroupScenes(scenes) ==
    IF scenes = <<>> THEN <<>>
    ELSE LET group == [scene |-> Head(scenes).id, shots |-> Head(scenes).shots]
         IN (IF Len(group.shots) > 0 THEN <<group>> ELSE <<>>)
            \o GroupScenes(Tail(scenes))

sceneGroups(script) ==
    IF script = NoScript THEN <<>> ELSE GroupScenes(script.scenes)

HasKeyframe(shot) == Truthy(shot.keyframe_url)
\* shots.every(s => s.keyframe_url)
EveryHasKeyframe(shots) == \A i \in 1..Len(shots) : HasKeyframe(shots[i])

(***************************************************************************)
(* Stage controller: determineCurrentStep                                  *)
(***************************************************************************)
StepOf(script, transitions) ==
    IF script = NoScript THEN 0
    ELSE IF Len(script.scenes) = 0 THEN 1
    ELSE IF Len(allShots(script)) = 0 THEN 2
    ELSE IF ~EveryHasKeyframe(allShots(script)) THEN 3
    ELSE IF Len(transitions) = 0 THEN 4
    ELSE 5

\* a slip that derives the stage from a busy flag
DeriveStage_ReadsBusy(w) ==
    IF w.shot.extracting THEN 2 ELSE StepOf(w.scene.script, w.transition.transitions)

\* what determineCurrentStep reads of the workflow composables
DeriveStage(w) == StepOf(w.scene.script, w.transition.transitions)

determineCurrentStep ==
    /\ currentStep' = DeriveStage([character |-> characterWorkflow, scene |-> sceneWorkflow,
                                   shot |-> shotWorkflow, transition |-> transitionWorkflow])
    /\ UNCHANGED <<characterWorkflow, sceneWorkflow, shotWorkflow,
                   transitionWorkflow, calls, store, notice, manager, loadScriptGiven, selectedChapterId, loading, loop, job>>

(***************************************************************************)
(* State after construction of the composables                             *)
(***************************************************************************)
InitCharacterWorkflow ==
    [characters |-> <<>>, extracting |-> FALSE, generatingIds |-> {},
     batchGenerating |-> FALSE]
InitSceneWorkflow == [script |-> NoScript, extracting |-> FALSE]
InitShotWorkflow ==
    [extracting |-> FALSE, generatingKeyframes |-> {}, extractingScenes |-> {}]
InitTransitionWorkflow ==
    [transitions |-> <<>>, creating |-> FALSE, generating |-> FALSE,
     generatingIds |-> {}]

IdleLoop == [pc |-> "idle", retries |-> 0, cancelled |-> FALSE,
             onSuccess |-> 0, onFailure |-> 0, reason |-> "none",
             queries |-> 0, errors |-> 0, dropped |-> 0]

(***************************************************************************)
(* The external entity store and what a finished job leaves in it          *)
(***************************************************************************)
\* deleted: the collections something has been deleted from
EmptyStore ==
    [characters |-> <<>>, script |-> NoScript, transitions |-> <<>>, deleted |-> {}]

\* the chapter whose content the store holds; the other chapter has no script
HomeChapter == 1
Chapters == {HomeChapter, 2}

NewCharacters == [i \in Ids |-> [id |-> i, avatar_url |-> Null]]
NewScript ==
    [id |-> 1, chapter_id |-> HomeChapter,
     scenes |-> [i \in Ids |-> [id |-> i, shots |-> <<>>]]]
NewShot(sceneId) == [id |-> sceneId, order_index |-> sceneId, keyframe_url |-> Null]
NewTransitions(script) ==
    LET shots == allShots(script)
    IN [i \in 1..(Len(shots) - 1) |->
          [id |-> i, script_id |-> script.id, order_index |-> i,
           from_shot |-> shots[i].id, to_shot |-> shots[i + 1].id,
           video_url |-> Null]]

\* the scenes of sceneIds (0: all) that have no shots get their first shot
FillScenes(script, sceneId) ==
    [script EXCEPT !.scenes = [i \in 1..Len(script.scenes) |->
        LET scene == script.scenes[i]
        IN IF (sceneId = 0 \/ scene.id = sceneId) /\ scene.shots = <<>>
           THEN [scene EXCEPT !.shots = <<NewShot(scene.id)>>] ELSE scene]]

\* the shot shotId (0: every shot) gets its keyframe
PaintShots(script, shotId) ==
    [script EXCEPT !.scenes = [i \in 1..Len(script.scenes) |->
        [script.scenes[i] EXCEPT !.shots = [j \in 1..Len(script.scenes[i].shots) |->
            LET shot == script.scenes[i].shots[j]
            IN IF shotId = 0 \/ shot.id = shotId
               THEN [shot EXCEPT !.keyframe_url = "url"] ELSE shot]]]]

\* a slip that lets the transition-creation job pair shots without keyframes
MayCreateTransitions_AnyShots(script) == TRUE

\* the transition-creation job pairs shots only when each carries a keyframe
MayCreateTransitions(script) == EveryHasKeyframe(allShots(script))

StoreEffect(op, id, st) ==
    CASE op = "extractCharacters" ->
           IF st.characters = <<>> /\ "characters" \notin st.deleted
           THEN [st EXCEPT !.characters = NewCharacters] ELSE st
      [] op = "generateAvatar" ->
           [st EXCEPT !.characters = [i \in 1..Len(st.characters) |->
               IF st.characters[i].id = id
               THEN [st.characters[i] EXCEPT !.avatar_url = "url"]
               ELSE st.characters[i]]]
      [] op = "batchGenerateAvatars" ->
           [st EXCEPT !.characters = [i \in 1..Len(st.characters) |->
               [st.characters[i] EXCEPT !.avatar_url = "url"]]]
      [] op = "extractScenes" ->
           IF st.script = NoScript THEN [st EXCEPT !.script = NewScript] ELSE st
      [] op = "extractShots" /\ st.script # NoScript ->
           [st EXCEPT !.script = FillScenes(st.script, 0)]
      [] op = "extractSingleSceneShots" /\ st.script # NoScript ->
           [st EXCEPT !.script = FillScenes(st.script, id)]
      [] op = "generateSingleKeyframe" /\ st.script # NoScript ->
           [st EXCEPT !.script = PaintShots(st.script, id)]
      [] op = "generateKeyframes" /\ st.script # NoScript ->
           [st EXCEPT !.script = PaintShots(st.script, 0)]
      [] op = "createTransitions" /\ st.script # NoScript ->
           IF st.transitions = <<>>
              /\ "transitions" \notin st.deleted
              /\ MayCreateTransitions(st.script)
           THEN [st EXCEPT !.transitions = NewTransitions(st.script)] ELSE st
      [] op = "generateSingleVideo" ->
           [st EXCEPT !.transitions = [i \in 1..Len(st.transitions) |->
               IF st.transitions[i].id = id
               THEN [st.transitions[i] EXCEPT !.video_url = "url"]
               ELSE st.transitions[i]]]
      [] op = "generateTransitionVideos" ->
           [st EXCEPT !.transitions = [i \in 1..Len(st.transitions) |->
               [st.transitions[i] EXCEPT !.video_url = "url"]]]
      [] OTHER -> st

\* a job for one entity succeeds only on an entity the store holds
HoldsEntity(op, id, st) ==
    CASE op = "generateAvatar" ->
           \E i \in 1..Len(st.characters) : st.characters[i].id = id
      [] op = "generateSingleKeyframe" ->
           \E i \in 1..Len(allShots(st.script)) : allShots(st.script)[i].id = id
      [] op = "generateSingleVideo" ->
           \E i \in 1..Len(st.transitions) : st.transitions[i].id = id
      [] OTHER -> TRUE

\* the store of a chapter whose pipeline has run through
RECURSIVE RunJobs(_, _)
RunJobs(ops, st) ==
    IF ops = <<>> THEN st ELSE RunJobs(Tail(ops), StoreEffect(Head(ops), 0, st))
Pipeline ==
    <<"extractCharacters", "batchGenerateAvatars", "extractScenes",
      "extractShots", "generateKeyframes", "createTransitions",
      "generateTransitionVideos">>
FullStore == RunJobs(Pipeline, EmptyStore)

(***************************************************************************)
(* Workflow managers: busy marks                                           *)
(***************************************************************************)
Workflows ==
    [character |-> characterWorkflow, scene |-> sceneWorkflow,
     shot |-> shotWorkflow, transition |-> transitionWorkflow]

SetWorkflows(w) ==
    /\ characterWorkflow' = w.character
    /\ sceneWorkflow' = w.scene
    /\ shotWorkflow' = w.shot
    /\ transitionWorkflow' = w.transition

CharacterOps == {"extractCharacters", "generateAvatar", "batchGenerateAvatars"}
SceneOps == {"extractScenes"}
ShotOps == {"extractShots", "generateKeyframes", "generateSingleKeyframe",
            "extractSingleSceneShots"}
TransitionOps == {"createTransitions", "generateTransitionVideos",
                  "generateSingleVideo"}
\* the generateOne operations, keyed by an entity id
PerEntityOps == {"generateAvatar", "generateSingleKeyframe", "generateSingleVideo",
                 "extractSingleSceneShots"}

\* the delete operations mark nothing busy
DeleteOps == {"deleteCharacter", "deleteTransition"}

ManagerOf(op) ==
    CASE op \in CharacterOps \cup {"deleteCharacter"} -> "character"
      [] op \in SceneOps -> "scene"
      [] op \in ShotOps -> "shot"
      [] op \in TransitionOps \cup {"deleteTransition"} -> "transition"

\* first statement of each operation: xxx.value = true / set.add(id)
MarkBusy(w, op, id) ==
    CASE op = "extractCharacters" -> [w EXCEPT !.character.extracting = TRUE]
      [] op = "generateAvatar" -> [w EXCEPT !.character.generatingIds = @ \cup {id}]
      [] op = "batchGenerateAvatars" -> [w EXCEPT !.character.batchGenerating = TRUE]
      [] op = "extractScenes" -> [w EXCEPT !.scene.extracting = TRUE]
      [] op = "extractShots" -> [w EXCEPT !.shot.extracting = TRUE]
      [] op = "generateKeyframes" -> w
      [] op = "generateSingleKeyframe" ->
           [w EXCEPT !.shot.generatingKeyframes = @ \cup {id}]
      [] op = "extractSingleSceneShots" ->
           [w EXCEPT !.shot.extractingScenes = @ \cup {id}]
      [] op = "createTransitions" -> [w EXCEPT !.transition.creating = TRUE]
      [] op = "generateTransitionVideos" -> [w EXCEPT !.transition.generating = TRUE]
      [] op = "generateSingleVideo" ->
           [w EXCEPT !.transition.generatingIds = @ \cup {id}]

\* a slip that empties the whole set instead of deleting one id
ClearBusy_WholeSet(w, op, id) ==
    CASE op = "generateAvatar" -> [w EXCEPT !.character.generatingIds = {}]
      [] op = "generateSingleKeyframe" -> [w EXCEPT !.shot.generatingKeyframes = {}]
      [] op = "extractSingleSceneShots" -> [w EXCEPT !.shot.extractingScenes = {}]
      [] op = "generateSingleVideo" -> [w EXCEPT !.transition.generatingIds = {}]
      [] OTHER -> w

\* xxx.value = false / set.delete(id)
ClearBusy(w, op, id) ==
    CASE op = "extractCharacters" -> [w EXCEPT !.character.extracting = FALSE]
      [] op = "generateAvatar" -> [w EXCEPT !.character.generatingIds = @ \ {id}]
      [] op = "batchGenerateAvatars" -> [w EXCEPT !.character.batchGenerating = FALSE]
      [] op = "extractScenes" -> [w EXCEPT !.scene.extracting = FALSE]
      [] op = "extractShots" -> [w EXCEPT !.shot.extracting = FALSE]
      [] op = "generateKeyframes" -> w
      [] op = "generateSingleKeyframe" ->
           [w EXCEPT !.shot.generatingKeyframes = @ \ {id}]
      [] op = "extractSingleSceneShots" ->
           [w EXCEPT !.shot.extractingScenes = @ \ {id}]
      [] op = "createTransitions" -> [w EXCEPT !.transition.creating = FALSE]
      [] op = "generateTransitionVideos" -> [w EXCEPT !.transition.generating = FALSE]
      [] op = "generateSingleVideo" ->
           [w EXCEPT !.transition.generatingIds = @ \ {id}]
      [] op \in DeleteOps -> w

\* the busy mark an operation sets is currently set
IsBusy(w, op, id) ==
    CASE op = "extractCharacters" -> w.character.extracting
      [] op = "generateAvatar" -> id \in w.character.generatingIds
      [] op = "batchGenerateAvatars" -> w.character.batchGenerating
      [] op = "extractScenes" -> w.scene.extracting
      [] op = "extractShots" -> w.shot.extracting
      [] op = "generateKeyframes" -> FALSE
      [] op = "generateSingleKeyframe" -> id \in w.shot.generatingKeyframes
      [] op = "extractSingleSceneShots" -> id \in w.shot.extractingScenes
      [] op = "createTransitions" -> w.transition.creating
      [] op = "generateTransitionVideos" -> w.transition.generating
      [] op = "generateSingleVideo" -> id \in w.transition.generatingIds

(***************************************************************************)
(* Workflow managers: loads                                                *)
(***************************************************************************)
projectId == 1

\* a load that merges: characters the response no longer lists are kept
loadCharacters_Merges(w, resp) ==
    IF resp = "ok"
    THEN [w EXCEPT !.character.characters =
            store.characters \o
            SelectSeq(@, LAMBDA c : \A i \in 1..Len(store.characters) :
                                      store.characters[i].id # c.id)]
    ELSE w

\* loadCharacters after its fetch has answered
loadCharacters(w, resp) ==
    IF resp = "ok" THEN [w EXCEPT !.character.characters = store.characters]
    ELSE w

\* loadScript after its fetch has answered
loadScript(w, resp) ==
    IF resp = "ok" THEN [w EXCEPT !.scene.script = store.script]
    ELSE [w EXCEPT !.scene.script = NoScript]

\* loadTransitions after its fetch has answered
loadTransitions(w, resp) ==
    IF resp = "ok" THEN [w EXCEPT !.transition.transitions = store.transitions]
    ELSE [w EXCEPT !.transition.transitions = <<>>]

\* a reload that drops the response
Reload_KeepsSlice(w, op, resp) == w

\* the load a success callback runs
Reload(w, op, resp) ==
    CASE op \in CharacterOps \cup {"deleteCharacter"} -> loadCharacters(w, resp)
      [] op \in SceneOps \cup ShotOps -> loadScript(w, resp)
      [] op \in TransitionOps \cup {"deleteTransition"} -> loadTransitions(w, resp)

(***************************************************************************)
(* Workflow managers: the steps of one operation                           *)
(***************************************************************************)
\* the operations run their first statement whatever the busy mark says
MayBegin(w, op, id) == TRUE

\* submission response without task_id: only two operations have an else branch
OnNoTaskId(w, op, id) ==
    IF op \in {"batchGenerateAvatars", "generateSingleKeyframe"}
    THEN ClearBusy(w, op, id) ELSE w

\* a catch block that forgets to release the mark
OnSubmitError_Keep(w, op, id) == w

\* catch block of the submission
OnSubmitError(w, op, id) == ClearBusy(w, op, id)
SubmitErrorNotice(op) == IF op = "generateSingleVideo" THEN "thrown" ELSE "error"

\* a failure callback that forgets to release the mark
OnJobFailure_Keep(w, op, id) == w

\* failure callback handed to startPolling
OnJobFailure(w, op, id) == ClearBusy(w, op, id)

\* success callback up to its first await: the shot operations clear the mark
\* before they reload, the others after
OnJobSuccess(w, op, id) == IF op \in ShotOps THEN ClearBusy(w, op, id) ELSE w

\* whether the success callback goes on to reload its slice
Reloads(w, op, withLoadScript) ==
    IF op \in ShotOps
    THEN w.scene.script # NoScript /\ TruthyId(w.scene.script.chapter_id)
         /\ withLoadScript
    ELSE TruthyId(projectId)

\* success callback after its reload has landed
OnReloaded(w, op, id, resp) ==
    IF op \in ShotOps THEN Reload(w, op, resp)
    ELSE ClearBusy(Reload(w, op, resp), op, id)

\* the batch of a job is one item per id; result.success is what did not fail
SuccessCount(failed) == NumIds - failed

\* a slip that leaves the failed count out of the text
SuccessNotice_DropsFailed(op, failed) ==
    IF op = "createTransitions" \/ op \in {"batchGenerateAvatars", "generateKeyframes",
                                           "generateTransitionVideos", "extractShots"}
    THEN Notice("success", SuccessCount(failed), NotShown)
    ELSE Notice("success", NotShown, NotShown)

\* ElMessage of the success callback and the counts of result its text carries
SuccessNotice(op, failed) ==
    CASE op \in {"batchGenerateAvatars", "generateTransitionVideos", "extractShots"} ->
           Notice("success", SuccessCount(failed), failed)
      [] op = "generateKeyframes" ->
           IF failed > 0 THEN Notice("warning", SuccessCount(failed), failed)
           ELSE Notice("success", SuccessCount(failed), NotShown)
      [] op = "createTransitions" -> Notice("success", SuccessCount(failed), NotShown)
      [] OTHER -> Notice("success", NotShown, NotShown)

\* the outstanding invocations are a bag of [op, id, pc] records
Call(op, id, pc) == [op |-> op, id |-> id, pc |-> pc]
Copies(bag, k) == IF k \in DOMAIN bag THEN bag[k] ELSE 0
Outstanding(bag) == BagCardinality(bag)
Put(bag, k) == bag (+) SetToBag({k})
Take(bag, k) == bag (-) SetToBag({k})
At(pc) == { k \in BagToSet(calls) : k.pc = pc }

Begin(n, op, id) ==
    /\ manager = ManagerOf(op)
    /\ selectedChapterId = HomeChapter
    /\ Outstanding(calls) < n
    /\ MayBegin(Workflows, op, id)
    /\ SetWorkflows(MarkBusy(Workflows, op, id))
    /\ calls' = Put(calls, Call(op, id, "submitting"))
    /\ UNCHANGED <<currentStep, store, notice, manager, loadScriptGiven, selectedChapterId, loading, loop, job>>

extractCharacters(n) == Begin(n, "extractCharacters", 0)
generateAvatar(n, id) == Begin(n, "generateAvatar", id)
batchGenerateAvatars(n) == Begin(n, "batchGenerateAvatars", 0)
extractScenes(n) == Begin(n, "extractScenes", 0)
extractShots(n) == Begin(n, "extractShots", 0)
generateKeyframes(n) == Begin(n, "generateKeyframes", 0)
generateSingleKeyframe(n, id) == Begin(n, "generateSingleKeyframe", id)
extractSingleSceneShots(n, id) == Begin(n, "extractSingleSceneShots", id)
createTransitions(n) == Begin(n, "createTransitions", 0)
generateTransitionVideos(n) == Begin(n, "generateTransitionVideos", 0)
generateSingleVideo(n, id) == Begin(n, "generateSingleVideo", id)

\* any operation is invoked while fewer than n invocations are outstanding
BeginAny(n) ==
    \/ extractCharacters(n)
    \/ \E id \in Ids : generateAvatar(n, id)
    \/ batchGenerateAvatars(n)
    \/ extractScenes(n)
    \/ extractShots(n)
    \/ generateKeyframes(n)
    \/ \E id \in Ids : generateSingleKeyframe(n, id)
    \/ \E id \in Ids : extractSingleSceneShots(n, id)
    \/ createTransitions(n)
    \/ generateTransitionVideos(n)
    \/ \E id \in Ids : generateSingleVideo(n, id)

\* the submission answered with a task_id: startPolling is called
SubmitAccepted(k) ==
    /\ k \in At("submitting")
    /\ calls' = Put(Take(calls, k), Call(k.op, k.id, "polling"))
    /\ notice' = Notice("success", NotShown, NotShown)
    /\ UNCHANGED <<characterWorkflow, sceneWorkflow, shotWorkflow,
                   transitionWorkflow, currentStep, store, manager, loadScriptGiven, selectedChapterId, loading>>

\* the submission answered without a task_id
SubmitNoTaskId(k) ==
    /\ k \in At("submitting")
    /\ SetWorkflows(OnNoTaskId(Workflows, k.op, k.id))
    /\ calls' = Take(calls, k)
    /\ UNCHANGED <<currentStep, store, notice, manager, loadScriptGiven, selectedChapterId, loading, loop, job>>

\* the submission was rejected
SubmitRejected(k) ==
    /\ k \in At("submitting")
    /\ SetWorkflows(OnSubmitError(Workflows, k.op, k.id))
    /\ calls' = Take(calls, k)
    /\ notice' = Notice(SubmitErrorNotice(k.op), NotShown, NotShown)
    /\ UNCHANGED <<currentStep, store, manager, loadScriptGiven, selectedChapterId, loading, loop, job>>

\* result.failed, for the operations whose success callback reads it
FailedCounts(op) ==
    IF op \in {"batchGenerateAvatars", "generateTransitionVideos", "extractShots",
               "generateKeyframes"}
    THEN 0..1 ELSE {0}

\* the poller invokes the success callback
SuccessCallback(k, failed) ==
    /\ k \in At("polling")
    /\ LET w == OnJobSuccess(Workflows, k.op, k.id)
       IN /\ SetWorkflows(w)
          /\ calls' = IF Reloads(w, k.op, loadScriptGiven)
                      THEN Put(Take(calls, k), Call(k.op, k.id, "reloading"))
                      ELSE Take(calls, k)
    /\ notice' = SuccessNotice(k.op, failed)
    /\ UNCHANGED <<currentStep, manager, loadScriptGiven, selectedChapterId, loading>>

\* the fetch issued by the success callback answers
ReloadLands(k, resp) ==
    /\ k \in At("reloading")
    /\ SetWorkflows(OnReloaded(Workflows, k.op, k.id, resp))
    /\ calls' = Take(calls, k)
    /\ UNCHANGED <<currentStep, store, notice, manager, loadScriptGiven, selectedChapterId, loading, loop, job>>

\* the poller invokes the failure callback
FailureCallback(k) ==
    /\ k \in At("polling")
    /\ SetWorkflows(OnJobFailure(Workflows, k.op, k.id))
    /\ calls' = Take(calls, k)
    /\ notice' = Notice("error", NotShown, NotShown)
    /\ UNCHANGED <<currentStep, store, manager, loadScriptGiven, selectedChapterId, loading>>

(***************************************************************************)
(* Spec: the managers, with the poller seen through its two callbacks      *)
(***************************************************************************)
Managers == {"character", "scene", "shot", "transition"}

LoadedWorkflows(w, st) ==
    [w EXCEPT !.character.characters = st.characters,
              !.scene.script = st.script,
              !.transition.transitions = st.transitions]

InitManagers ==
    /\ manager \in Managers
    /\ loadScriptGiven \in (IF manager = "shot" THEN BOOLEAN ELSE {FALSE})
    /\ selectedChapterId = HomeChapter
    /\ loading = FALSE
    /\ store = FullStore
    /\ \E w \in { [character |-> InitCharacterWorkflow, scene |-> InitSceneWorkflow,
                   shot |-> InitShotWorkflow,
                   transition |-> InitTransitionWorkflow] } :
         \E loaded \in BOOLEAN :
            LET w0 == IF loaded THEN LoadedWorkflows(w, FullStore) ELSE w
            IN /\ characterWorkflow = w0.character
               /\ sceneWorkflow = w0.scene
               /\ shotWorkflow = w0.shot
               /\ transitionWorkflow = w0.transition
    /\ currentStep = 0
    /\ calls = EmptyBag
    /\ notice = NoNotice

Init == InitManagers /\ loop = IdleLoop /\ job = "none"

\* the job has left its result in the store by the time the poller reports it
PollerSucceeds(k) ==
    /\ HoldsEntity(k.op, k.id, store)
    /\ \E failed \in FailedCounts(k.op) : SuccessCallback(k, failed)
    /\ store' = StoreEffect(k.op, k.id, store)
    /\ UNCHANGED <<loop, job>>

PollerFails(k) == FailureCallback(k) /\ UNCHANGED <<loop, job>>

Next ==
    \/ BeginAny(MaxCalls)
    \/ \E k \in BagToSet(calls) : SubmitAccepted(k) /\ UNCHANGED <<loop, job>>
    \/ \E k \in BagToSet(calls) : SubmitNoTaskId(k)
    \/ \E k \in BagToSet(calls) : SubmitRejected(k)
    \/ \E k \in BagToSet(calls) : PollerSucceeds(k)
    \/ \E k \in BagToSet(calls), resp \in {"ok", "error"} : ReloadLands(k, resp)
    \/ \E k \in BagToSet(calls) : PollerFails(k)

Spec == Init /\ [][Next]_vars

TypeOK ==
    /\ manager \in Managers
    /\ notice.kind \in {"none", "success", "warning", "error", "thrown"}
    /\ \A k \in BagToSet(calls) : k.pc \in {"submitting", "polling", "reloading"}
    /\ Outstanding(calls) <= MaxCalls

(***************************************************************************)
(* Task poller (useTaskPoller): one loop per startPolling                  *)
(***************************************************************************)
MaxTransportRetries == 3

JobStates == {"pending", "succeeded", "failed"}
Responses(j) == {j, "transport_error"}

\* what one poll cycle does with the answer of its status query
PollVerdict_SilentGiveUp(resp, retries, cancelled) ==
    IF cancelled THEN "drop"
    ELSE CASE resp = "pending" -> "reschedule"
           [] resp = "succeeded" -> "onSuccess"
           [] resp = "failed" -> "onFailure"
           [] resp = "transport_error" ->
                IF retries < MaxTransportRetries THEN "reschedule" ELSE "drop"

PollVerdict_IgnoresCancel(resp, retries, cancelled) ==
    CASE resp = "pending" -> "reschedule"
      [] resp = "succeeded" -> "onSuccess"
      [] resp = "failed" -> "onFailure"
      [] resp = "transport_error" ->
           IF retries < MaxTransportRetries THEN "reschedule" ELSE "onFailure"

PollVerdict_NoRetry(resp, retries, cancelled) ==
    IF cancelled THEN "drop"
    ELSE CASE resp = "pending" -> "reschedule"
           [] resp = "succeeded" -> "onSuccess"
           [] resp \in {"failed", "transport_error"} -> "onFailure"

PollVerdict(resp, retries, cancelled) ==
    IF cancelled THEN "drop"
    ELSE CASE resp = "pending" -> "reschedule"
           [] resp = "succeeded" -> "onSuccess"
           [] resp = "failed" -> "onFailure"
           [] resp = "transport_error" ->
                IF retries < MaxTransportRetries THEN "reschedule" ELSE "onFailure"

\* consecutive transport errors so far
NextRetries(resp, retries) == IF resp = "transport_error" THEN retries + 1 ELSE 0

\* startPolling(taskId, onSuccess, onFailure)
startPolling(k) ==
    /\ SubmitAccepted(k)
    /\ loop' = [IdleLoop EXCEPT !.pc = "waiting"]
    /\ job' = "pending"

\* the backend finishes the job
JobFinishes(k, outcome) ==
    /\ job = "pending"
    /\ k \in At("polling")
    /\ outcome = "succeeded" => HoldsEntity(k.op, k.id, store)
    /\ job' = outcome
    /\ store' = IF outcome = "succeeded" THEN StoreEffect(k.op, k.id, store) ELSE store
    /\ UNCHANGED <<characterWorkflow, sceneWorkflow, shotWorkflow, transitionWorkflow,
                   currentStep, calls, notice, manager, loadScriptGiven, selectedChapterId, loading, loop>>

\* the interval elapses and the next status query is sent
TimerFires ==
    /\ loop.pc = "waiting"
    /\ loop.queries < MaxQueries
    /\ loop' = [loop EXCEPT !.pc = "querying", !.queries = @ + 1]
    /\ UNCHANGED <<characterWorkflow, sceneWorkflow, shotWorkflow, transitionWorkflow,
                   currentStep, calls, store, notice, manager, loadScriptGiven, selectedChapterId, loading, job>>

\* the caller cancels the loop: a pending timer is cleared, a query in flight
\* stays in flight
Cancel ==
    /\ loop.pc \in {"waiting", "querying"}
    /\ ~loop.cancelled
    /\ loop' = [loop EXCEPT !.cancelled = TRUE,
                            !.pc = IF @ = "waiting" THEN "stopped" ELSE @]
    /\ UNCHANGED <<characterWorkflow, sceneWorkflow, shotWorkflow, transitionWorkflow,
                   currentStep, calls, store, notice, manager, loadScriptGiven, selectedChapterId, loading, job>>

\* the status query answers
QueryAnswered(k, resp) ==
    /\ loop.pc = "querying"
    /\ k \in At("polling")
    /\ resp \in Responses(job)
    /\ LET verdict == PollVerdict(resp, loop.retries, loop.cancelled)
           counted == [loop EXCEPT !.errors = IF resp = "transport_error"
                                              THEN @ + 1 ELSE @]
       IN CASE verdict = "drop" ->
                 /\ loop' = [counted EXCEPT !.pc = "stopped", !.dropped = @ + 1]
                 /\ UNCHANGED <<characterWorkflow, sceneWorkflow, shotWorkflow,
                                transitionWorkflow, currentStep, calls, notice,
                                manager, loadScriptGiven, selectedChapterId, loading>>
            [] verdict = "reschedule" ->
                 /\ loop' = [counted EXCEPT !.pc = "waiting",
                                            !.retries = NextRetries(resp, @)]
                 /\ UNCHANGED <<characterWorkflow, sceneWorkflow, shotWorkflow,
                                transitionWorkflow, currentStep, calls, notice,
                                manager, loadScriptGiven, selectedChapterId, loading>>
            [] verdict = "onSuccess" ->
                 /\ loop' = [counted EXCEPT !.pc = "stopped", !.onSuccess = @ + 1]
                 /\ \E failed \in FailedCounts(k.op) : SuccessCallback(k, failed)
            [] verdict = "onFailure" ->
                 /\ loop' = [counted EXCEPT !.pc = "stopped", !.onFailure = @ + 1,
                                !.reason = IF resp = "failed" THEN "job"
                                           ELSE "transport"]
                 /\ FailureCallback(k)
    /\ UNCHANGED <<store, job>>

(***************************************************************************)
(* SpecPoller: one operation at a time, its poll loop cycle by cycle       *)
(***************************************************************************)
InitPoller == InitManagers /\ loop = IdleLoop /\ job = "none"

NextPoller ==
    \/ BeginAny(1)
    \/ TimerFires
    \/ Cancel
    \/ \E k \in BagToSet(calls) : startPolling(k)
    \/ \E k \in BagToSet(calls) : SubmitNoTaskId(k)
    \/ \E k \in BagToSet(calls) : SubmitRejected(k)
    \/ \E k \in BagToSet(calls), outcome \in {"succeeded", "failed"} :
          JobFinishes(k, outcome)
    \/ \E k \in BagToSet(calls), resp \in JobStates \cup {"transport_error"} :
          QueryAnswered(k, resp)
    \/ \E k \in BagToSet(calls), resp \in {"ok", "error"} : ReloadLands(k, resp)

SpecPoller == InitPoller /\ [][NextPoller]_vars

(***************************************************************************)
(* Snapshots the script and transition fetches can return                  *)
(***************************************************************************)
Urls == {Null, "url"}

\* the shot lists of a scene as the store returns them, in ascending or (desc)
\* in descending order_index
ShotLists(sceneId, desc) ==
    UNION { { [i \in 1..n |->
                 [id |-> (sceneId - 1) * MaxShots + i,
                  order_index |-> IF desc THEN n + 1 - i ELSE i,
                  keyframe_url |-> kf[i]]] : kf \in [1..n -> Urls] }
            : n \in 0..MaxShots }

RECURSIVE SceneListsOfLen(_, _)
SceneListsOfLen(n, desc) ==
    IF n = 0 THEN {<<>>}
    ELSE { Append(ss, [id |-> n, shots |-> sh])
           : ss \in SceneListsOfLen(n - 1, desc), sh \in ShotLists(n, desc) }

\* scripts of up to maxScenes scenes
Scripts(maxScenes) ==
    { [id |-> 1, chapter_id |-> 1, scenes |-> ss]
      : ss \in UNION { SceneListsOfLen(n, desc) : n \in 0..maxScenes, desc \in BOOLEAN } }

\* transition lists of up to maxTransitions transitions
TransitionLists(maxTransitions) ==
    { [i \in 1..n |-> [id |-> i, order_index |-> i, video_url |-> Null]]
      : n \in 0..maxTransitions }

(***************************************************************************)
(* SpecStage: the stage controller applied to every enumerated snapshot    *)
(***************************************************************************)
InitStage ==
    /\ characterWorkflow = InitCharacterWorkflow
    /\ sceneWorkflow \in { [script |-> sc, extracting |-> FALSE]
                           : sc \in Scripts(MaxScenes) \cup {NoScript} }
    /\ shotWorkflow = InitShotWorkflow
    /\ transitionWorkflow \in { [InitTransitionWorkflow EXCEPT !.transitions = t]
                                : t \in TransitionLists(MaxTransitions) }
    /\ currentStep = 0
    /\ calls = EmptyBag
    /\ store = EmptyStore
    /\ notice = NoNotice
    /\ manager = "stage"
    /\ loadScriptGiven = FALSE
    /\ selectedChapterId = HomeChapter
    /\ loading = FALSE
    /\ loop = IdleLoop
    /\ job = "none"

NextStage == determineCurrentStep

SpecStage == InitStage /\ [][NextStage]_vars

(***************************************************************************)
(* loadData, chapter selection and the delete operations                   *)
(***************************************************************************)
\* GET /movie/chapters/{chapterId}/script
FetchScript(chapterId) == IF chapterId = HomeChapter THEN store.script ELSE NoScript

\* loadData up to its first await: loadCharacters is on its way
BeginLoadData(n) ==
    /\ TruthyId(selectedChapterId') /\ TruthyId(projectId)
    /\ Outstanding(calls) < n
    /\ calls' = Put(calls, Call("loadData", 0, "characters"))
    /\ loading' = TRUE
    /\ UNCHANGED <<characterWorkflow, sceneWorkflow, shotWorkflow, transitionWorkflow,
                   currentStep, store, notice, manager, loadScriptGiven, loop, job>>

\* onMounted, or the view calling the exported loadData
loadData(n) == UNCHANGED selectedChapterId /\ BeginLoadData(n)

\* the route changes to another chapter: watch(selectedChapterId) runs loadData
SelectChapter(n, chapterId) ==
    /\ chapterId # selectedChapterId
    /\ selectedChapterId' = chapterId
    /\ BeginLoadData(n)

\* loadCharacters has answered: loadScript(selectedChapterId.value) is sent
LoadDataCharacters(k, resp) ==
    /\ k \in At("characters")
    /\ SetWorkflows(loadCharacters(Workflows, resp))
    /\ calls' = Put(Take(calls, k), Call("loadData", selectedChapterId, "script"))
    /\ UNCHANGED <<currentStep, store, notice, manager, loadScriptGiven,
                   selectedChapterId, loading, loop, job>>

\* loadScript has answered: with a script loadTransitions(script.id) is sent,
\* without one determineCurrentStep ends loadData
LoadDataScript(k, resp) ==
    /\ k \in At("script")
    /\ LET got == IF resp = "ok" THEN FetchScript(k.id) ELSE NoScript
           w == [Workflows EXCEPT !.scene.script = got]
       IN /\ SetWorkflows(w)
          /\ IF got # NoScript
             THEN /\ calls' = Put(Take(calls, k), Call("loadData", got.id, "transitions"))
                  /\ UNCHANGED <<currentStep, loading>>
             ELSE /\ calls' = Take(calls, k)
                  /\ currentStep' = DeriveStage(w)
                  /\ loading' = FALSE
    /\ UNCHANGED <<store, notice, manager, loadScriptGiven, selectedChapterId, loop, job>>

\* loadTransitions has answered: determineCurrentStep ends loadData
LoadDataTransitions(k, resp) ==
    /\ k \in At("transitions")
    /\ LET w == loadTransitions(Workflows, resp)
       IN /\ SetWorkflows(w)
          /\ currentStep' = DeriveStage(w)
    /\ calls' = Take(calls, k)
    /\ loading' = FALSE
    /\ UNCHANGED <<store, notice, manager, loadScriptGiven, selectedChapterId, loop, job>>

\* a delete operation up to its await movieService call
BeginDelete(n, op, id) ==
    /\ manager = ManagerOf(op)
    /\ Outstanding(calls) < n
    /\ calls' = Put(calls, Call(op, id, "deleting"))
    /\ UNCHANGED <<characterWorkflow, sceneWorkflow, shotWorkflow, transitionWorkflow,
                   currentStep, store, notice, manager, loadScriptGiven,
                   selectedChapterId, loading, loop, job>>

deleteCharacter(n, id) == BeginDelete(n, "deleteCharacter", id)
deleteTransition(n, id) == BeginDelete(n, "deleteTransition", id)

\* the collection of the store a delete operation works on; identifiers are not
\* used twice, so a collection something was deleted from is not created anew
\* (StoreEffect): the entities it would get have identifiers outside Ids
Collection(op, st) == IF op = "deleteCharacter" THEN st.characters ELSE st.transitions
InStore(op, id, st) == \E i \in 1..Len(Collection(op, st)) : Collection(op, st)[i].id = id
Without(coll, id) == SelectSeq(coll, LAMBDA e : e.id # id)
RemoveFromStore(op, id, st) ==
    IF op = "deleteCharacter"
    THEN [st EXCEPT !.characters = Without(@, id), !.deleted = @ \cup {"characters"}]
    ELSE [st EXCEPT !.transitions = Without(@, id), !.deleted = @ \cup {"transitions"}]

\* a catch block that takes the entity out of the slice all the same
OnDeleteError_DropsLocally(w, op, id) ==
    IF op = "deleteCharacter"
    THEN [w EXCEPT !.character.characters = Without(@, id)]
    ELSE [w EXCEPT !.transition.transitions = Without(@, id)]

\* catch block of a delete operation
OnDeleteError(w, op, id) == w

\* the store has deleted the entity: the slice is reloaded
DeleteAccepted(k) ==
    /\ k \in At("deleting")
    /\ InStore(k.op, k.id, store)
    /\ store' = RemoveFromStore(k.op, k.id, store)
    /\ notice' = Notice("success", NotShown, NotShown)
    /\ calls' = IF Reloads(Workflows, k.op, FALSE)
                THEN Put(Take(calls, k), Call(k.op, k.id, "reloading"))
                ELSE Take(calls, k)
    /\ UNCHANGED <<characterWorkflow, sceneWorkflow, shotWorkflow, transitionWorkflow,
                   currentStep, manager, loadScriptGiven, selectedChapterId, loading, loop, job>>

\* the delete failed (the id is gone already, or the request did not get through)
DeleteRejected(k) ==
    /\ k \in At("deleting")
    /\ SetWorkflows(OnDeleteError(Workflows, k.op, k.id))
    /\ notice' = Notice("error", NotShown, NotShown)
    /\ calls' = Take(calls, k)
    /\ UNCHANGED <<currentStep, store, manager, loadScriptGiven, selectedChapterId, loading,
                   loop, job>>

(***************************************************************************)
(* SpecLoad: the managers with loadData, chapter selection and deletes,    *)
(* over stores at every point of the pipeline                              *)
(***************************************************************************)
SeedStores == { RunJobs(SubSeq(Pipeline, 1, n), EmptyStore) : n \in 0..Len(Pipeline) }

InitLoad ==
    /\ manager \in Managers
    /\ loadScriptGiven \in (IF manager = "shot" THEN BOOLEAN ELSE {FALSE})
    /\ selectedChapterId \in Chapters
    /\ loading = FALSE
    /\ store \in SeedStores
    /\ characterWorkflow = InitCharacterWorkflow
    /\ sceneWorkflow = InitSceneWorkflow
    /\ shotWorkflow = InitShotWorkflow
    /\ transitionWorkflow = InitTransitionWorkflow
    /\ currentStep = 0
    /\ calls = EmptyBag
    /\ notice = NoNotice
    /\ loop = IdleLoop
    /\ job = "none"

NextLoad ==
    \/ BeginAny(MaxLoadCalls)
    \/ loadData(MaxLoads)
    \/ \E chapterId \in Chapters : SelectChapter(MaxLoads, chapterId)
    \/ \E id \in Ids : deleteCharacter(MaxLoadCalls, id)
    \/ \E id \in Ids : deleteTransition(MaxLoadCalls, id)
    \/ \E k \in BagToSet(calls), resp \in {"ok", "error"} : LoadDataCharacters(k, resp)
    \/ \E k \in BagToSet(calls), resp \in {"ok", "error"} : LoadDataScript(k, resp)
    \/ \E k \in BagToSet(calls), resp \in {"ok", "error"} : LoadDataTransitions(k, resp)
    \/ \E k \in BagToSet(calls) : DeleteAccepted(k)
    \/ \E k \in BagToSet(calls) : DeleteRejected(k)
    \/ \E k \in BagToSet(calls) : SubmitAccepted(k) /\ UNCHANGED <<loop, job>>
    \/ \E k \in BagToSet(calls) : SubmitNoTaskId(k)
    \/ \E k \in BagToSet(calls) : SubmitRejected(k)
    \/ \E k \in BagToSet(calls) : PollerSucceeds(k)
    \/ \E k \in BagToSet(calls), resp \in {"ok", "error"} : ReloadLands(k, resp)
    \/ \E k \in BagToSet(calls) : PollerFails(k)

SpecLoad == InitLoad /\ [][NextLoad]_vars

(***************************************************************************)
(* Properties                                                              *)
(***************************************************************************)
GenerateOneOps == {"generateAvatar", "generateSingleKeyframe", "generateSingleVideo"}
AllOps == CharacterOps \cup SceneOps \cup ShotOps \cup TransitionOps
BusySet(w, op) ==
    CASE op = "generateAvatar" -> w.character.generatingIds
      [] op = "generateSingleKeyframe" -> w.shot.generatingKeyframes
      [] op = "extractSingleSceneShots" -> w.shot.extractingScenes
      [] op = "generateSingleVideo" -> w.transition.generatingIds

\* C1: at most one submitted, not yet terminal generation job exists per
\* (stage, entity id); a second generateOne for an id in flight creates no
\* second job.
C1_AtMostOneInFlight ==
    \A op \in GenerateOneOps, id \in Ids : Copies(calls, Call(op, id, "polling")) <= 1

\* C2: the begin step of a per-entity operation is a check-and-insert: it goes
\* ahead only when the id is absent from the busy set, so a second begin for
\* the same id is turned away until the id has been removed.
C2_TryBeginChecksAbsence ==
    [][\A op \in PerEntityOps, id \in Ids :
         Copies(calls', Call(op, id, "submitting")) > Copies(calls, Call(op, id, "submitting"))
         => ~IsBusy(Workflows, op, id)]_vars

\* C3: a poll loop fires at most one callback in all, and a loop that has
\* stopped without being cancelled has fired exactly one, the operation that
\* started it having left its polling state.
C3_ExactlyOneCallback ==
    /\ loop.onSuccess + loop.onFailure <= 1
    /\ (loop.pc = "stopped" /\ ~loop.cancelled)
         => /\ loop.onSuccess + loop.onFailure = 1
            /\ At("polling") = {}

C3_Witness ==
    /\ loop.pc = "stopped" /\ ~loop.cancelled
    /\ job = "succeeded" /\ loop.onSuccess = 1 /\ loop.onFailure = 0

\* C4: once a loop is cancelled, no callback of it fires any more and the
\* managers see nothing of it, also when a query was in flight and answers.
C4_NoCallbackAfterCancel ==
    [][loop.cancelled =>
         /\ loop'.onSuccess = loop.onSuccess
         /\ loop'.onFailure = loop.onFailure
         /\ calls' = calls
         /\ Workflows' = Workflows
         /\ notice' = notice]_vars

\* cancelled with a query in flight that then answered succeeded
C4_Witness ==
    /\ loop.cancelled /\ loop.pc = "stopped" /\ loop.dropped = 1
    /\ job = "succeeded" /\ loop.onSuccess = 0 /\ loop.onFailure = 0

\* C5: the failure callback fires either for a failed job or, for transport
\* reasons, only when MaxTransportRetries retries are used up; below that
\* bound a loop whose job is pending keeps polling.
C5_TransportRetried ==
    [][/\ loop'.onFailure > loop.onFailure =>
            \/ loop'.reason = "job" /\ job = "failed"
            \/ loop'.reason = "transport" /\ loop.retries = MaxTransportRetries
       /\ (loop.pc = "querying" /\ ~loop.cancelled /\ job = "pending"
           /\ loop.retries < MaxTransportRetries)
            => loop'.pc \in {"querying", "waiting"} /\ loop'.onFailure = 0]_vars

\* two transport errors, then the third query succeeds
C5_Witness ==
    /\ loop.errors = 2 /\ loop.queries = 3
    /\ loop.pc = "stopped" /\ loop.onSuccess = 1 /\ loop.onFailure = 0

\* C6: the first status answer "failed" stops the loop with one failure
\* callback and no retry, the operation is over with its busy mark released,
\* and a stopped loop sends no further query.
C6_JobFailureTerminal ==
    [][/\ \A k \in BagToSet(calls) :
            (QueryAnswered(k, "failed") /\ ~loop.cancelled) =>
               /\ loop'.pc = "stopped"
               /\ loop'.onFailure = 1 /\ loop'.onSuccess = 0
               /\ loop'.reason = "job"
               /\ loop'.retries = loop.retries
               /\ calls' = EmptyBag
               /\ ~IsBusy(Workflows', k.op, k.id)
       /\ loop.pc = "stopped" => loop'.pc # "querying"]_vars

C6_Witness ==
    /\ loop.pc = "stopped" /\ loop.reason = "job" /\ loop.onFailure = 1
    /\ loop.queries = 1 /\ calls = EmptyBag
    /\ manager = "character" /\ characterWorkflow.generatingIds = {}
    /\ notice.kind = "error"

\* C7: in every quiescent state (no request, no job, no reload outstanding)
\* no busy flag is set and no id is left in a generating set.
C7_QuiescentNotBusy ==
    calls = EmptyBag =>
        /\ ~characterWorkflow.extracting
        /\ characterWorkflow.generatingIds = {}
        /\ ~characterWorkflow.batchGenerating
        /\ ~sceneWorkflow.extracting
        /\ ~shotWorkflow.extracting
        /\ shotWorkflow.generatingKeyframes = {}
        /\ shotWorkflow.extractingScenes = {}
        /\ ~transitionWorkflow.creating
        /\ ~transitionWorkflow.generating
        /\ transitionWorkflow.generatingIds = {}

\* C8: a rejected submission releases the busy mark at once, starts no poll
\* loop, leaves every slice as it was, and shows or throws the error.
C8_SubmissionFailure ==
    [][\A k \in BagToSet(calls) : SubmitRejected(k) =>
         /\ ~IsBusy(Workflows', k.op, k.id)
         /\ Copies(calls', Call(k.op, k.id, "polling"))
              = Copies(calls, Call(k.op, k.id, "polling"))
         /\ Outstanding(calls') = Outstanding(calls) - 1
         /\ characterWorkflow'.characters = characterWorkflow.characters
         /\ sceneWorkflow'.script = sceneWorkflow.script
         /\ transitionWorkflow'.transitions = transitionWorkflow.transitions
         /\ store' = store
         /\ notice'.kind \in {"error", "thrown"}]_vars

\* generateSingleVideo was rejected: the error is thrown on, the id released
C8_Witness ==
    /\ notice.kind = "thrown"
    /\ calls = EmptyBag
    /\ transitionWorkflow.generatingIds = {}

\* how a step moves the invocations of op for id
Moved(op, id, from) == Copies(calls', Call(op, id, from)) < Copies(calls, Call(op, id, from))
Arrived(op, id, to) == Copies(calls', Call(op, id, to)) > Copies(calls, Call(op, id, to))
Touched(op, id) ==
    \E pc \in {"submitting", "polling", "reloading"} :
        Copies(calls', Call(op, id, pc)) # Copies(calls, Call(op, id, pc))
ReleasedBeforeReload(op, id) ==
    ~IsBusy(OnJobSuccess(MarkBusy(Workflows, op, id), op, id), op, id)

\* C9: a step of an invocation k of an operation for id x leaves every other id of every busy
\* set alone, and the sets of the other operations whole; the begin of a
\* per-entity operation puts x in its set whatever else is in flight; the
\* callback of its finished job (success or failure) takes x out, at once or,
\* when it reloads first, as the reload lands.
C9_IndependentIds ==
    [][\A k \in BagToSet(calls) \cup BagToSet(calls') :
         Touched(k.op, k.id) =>
            /\ \A o \in PerEntityOps :
                 /\ BusySet(Workflows', o) \ {k.id} = BusySet(Workflows, o) \ {k.id}
                 /\ o # k.op => BusySet(Workflows', o) = BusySet(Workflows, o)
            /\ k.op \in PerEntityOps =>
                 /\ Arrived(k.op, k.id, "submitting") => k.id \in BusySet(Workflows', k.op)
                 /\ Moved(k.op, k.id, "polling") =>
                      \/ k.id \notin BusySet(Workflows', k.op)
                      \/ Arrived(k.op, k.id, "reloading")
                 /\ Moved(k.op, k.id, "reloading") =>
                      \/ k.id \notin BusySet(Workflows', k.op)
                      \/ ReleasedBeforeReload(k.op, k.id)]_vars

\* keyframes for shots 1 and 2 in flight together; the job of shot 1 has
\* succeeded and only shot 1 has left the set
C9_Witness ==
    /\ Copies(calls, Call("generateSingleKeyframe", 1, "reloading")) = 1
    /\ Copies(calls, Call("generateSingleKeyframe", 2, "polling")) = 1
    /\ shotWorkflow.generatingKeyframes = {2}

\* the rule list of the stage derivation, over the (scene, shot) positions
AllSceneShots(script) ==
    UNION { { <<i, j>> : j \in 1..Len(script.scenes[i].shots) }
            : i \in 1..Len(script.scenes) }

FirstMatchingRule(script, transitions) ==
    CASE script = NoScript -> 0
      [] script # NoScript /\ Len(script.scenes) = 0 -> 1
      [] script # NoScript /\ Len(script.scenes) > 0
           /\ AllSceneShots(script) = {} -> 2
      [] script # NoScript /\ Len(script.scenes) > 0
           /\ AllSceneShots(script) # {}
           /\ \E p \in AllSceneShots(script) :
                 script.scenes[p[1]].shots[p[2]].keyframe_url = Null -> 3
      [] script # NoScript /\ Len(script.scenes) > 0
           /\ AllSceneShots(script) # {}
           /\ (\A p \in AllSceneShots(script) :
                 script.scenes[p[1]].shots[p[2]].keyframe_url # Null)
           /\ Len(transitions) = 0 -> 4
      [] OTHER -> 5

\* C10: after determineCurrentStep has run, currentStep is in 0..5 and is the
\* first matching rule: 0 without a script, 1 with no scenes, 2 when the shots
\* of all scenes together are none, 3 when some shot has no keyframe, 4 when
\* there are no transitions, 5 otherwise.
C10_DeriveStage ==
    [][determineCurrentStep =>
         /\ currentStep' \in 0..5
         /\ currentStep' = FirstMatchingRule(sceneWorkflow.script,
                                             transitionWorkflow.transitions)]_vars

\* a script with a 3-shot scene and a 0-shot scene has been evaluated
C10_Witness ==
    /\ sceneWorkflow.script # NoScript
    /\ Len(sceneWorkflow.script.scenes) = 2
    /\ Len(sceneWorkflow.script.scenes[1].shots) = 3
    /\ Len(sceneWorkflow.script.scenes[2].shots) = 0
    /\ currentStep \in 3..5

\* the generateBatch operations, one per stage that has one
BatchOps == {"batchGenerateAvatars", "generateKeyframes", "generateTransitionVideos"}

\* C17: at most one batch job per stage is submitted and not yet terminal: a
\* second generateBatch while the first is in flight submits nothing.
C17_OneBatchPerStage ==
    \A op \in BatchOps : Copies(calls, Call(op, 0, "polling")) <= 1

\* the batch operations whose result carries a failed count
CountingBatchOps == {"batchGenerateAvatars", "generateKeyframes",
                     "generateTransitionVideos", "extractShots"}

\* C16: when the status query of a batch job answers succeeded with
\* failed > 0, the loop fires the success callback and not the failure
\* callback, and what the caller is shown carries both counts, is no error, and
\* differs from what the same operation shows for failed = 0.
C16_PartialBatchFailure ==
    [][\A k \in BagToSet(calls), failed \in 1..NumIds :
         (/\ k.op \in CountingBatchOps
          /\ QueryAnswered(k, "succeeded")
          /\ SuccessCallback(k, failed)) =>
            /\ loop'.onSuccess = 1 /\ loop'.onFailure = 0
            /\ notice'.kind \in {"success", "warning"}
            /\ notice'.failed = failed
            /\ notice'.success = SuccessCount(failed)
            /\ notice' # SuccessNotice(k.op, 0)]_vars

\* a keyframe batch ended with one failed item: a warning with both counts
C16_Witness ==
    /\ loop.pc = "stopped" /\ loop.onSuccess = 1 /\ loop.onFailure = 0
    /\ notice = Notice("warning", SuccessCount(1), 1)

\* the workflows with the same slices and every busy flag at b, every
\* generating set at ids
WithTracker(w, b, ids) ==
    [w EXCEPT !.character.extracting = b, !.character.batchGenerating = b,
              !.character.generatingIds = ids,
              !.scene.extracting = b,
              !.shot.extracting = b, !.shot.generatingKeyframes = ids,
              !.shot.extractingScenes = ids,
              !.transition.creating = b, !.transition.generating = b,
              !.transition.generatingIds = ids]

\* C12: the stage determineCurrentStep assigns is the stage derived from the
\* same slices under every setting of the busy flags and generating sets, and
\* the evaluation changes nothing but currentStep.
C12_StageReadsSnapshotOnly ==
    [][determineCurrentStep =>
         /\ \A b \in BOOLEAN, ids \in SUBSET Ids :
              DeriveStage(WithTracker(Workflows, b, ids)) = currentStep'
         /\ UNCHANGED <<characterWorkflow, sceneWorkflow, shotWorkflow,
                        transitionWorkflow, calls, store, notice, manager,
                        loadScriptGiven, selectedChapterId, loading, loop, job>>]_vars

\* a snapshot with shots but a missing keyframe has been evaluated as stage 3
C12_Witness ==
    /\ currentStep = 3
    /\ sceneWorkflow.script # NoScript
    /\ Len(allShots(sceneWorkflow.script)) = MaxShots

\* s is in ascending order_index order
Ascending(s) == \A i \in 1..(Len(s) - 1) : s[i].order_index <= s[i + 1].order_index

\* C18: every list exposed for display or iteration (allShots, the shots of
\* each scene group, the transitions) is in ascending order_index order
\* whatever order the store returned it in.
C18_ExposedInOrder ==
    /\ Ascending(allShots(sceneWorkflow.script))
    /\ \A i \in 1..Len(sceneGroups(sceneWorkflow.script)) :
          Ascending(sceneGroups(sceneWorkflow.script)[i].shots)
    /\ Ascending(transitionWorkflow.transitions)


\* C11: after every reload that a job completion triggers, currentStep is the
\* stage derived from the slices as they are then; and a step that assigns
\* currentStep assigns the derived stage.
C11_StageFollowsJobReloads ==
    [][/\ \A k \in BagToSet(calls) :
            (k.op \in AllOps /\ ReloadLands(k, "ok")) =>
                currentStep' = DeriveStage(Workflows')
       /\ currentStep' # currentStep => currentStep' = DeriveStage(Workflows')]_vars


\* the step in which a run of loadData returns
LoadDataEnds(k) ==
    \E resp \in {"ok", "error"} :
        \/ LoadDataScript(k, resp) /\ calls' = Take(calls, k)
        \/ LoadDataTransitions(k, resp)

\* C13: when loadData has returned and nothing else is outstanding, the script
\* slice is absent or the script of the selected chapter, and every transition
\* in the transition slice belongs to the script in the script slice: nothing
\* of a previously selected chapter is left.
C13_NothingOfThePreviousChapter ==
    [][\A k \in BagToSet(calls) :
         (LoadDataEnds(k) /\ calls' = EmptyBag) =>
            /\ \/ sceneWorkflow'.script = NoScript
               \/ sceneWorkflow'.script.chapter_id = selectedChapterId
            /\ \A i \in 1..Len(transitionWorkflow'.transitions) :
                  /\ sceneWorkflow'.script # NoScript
                  /\ transitionWorkflow'.transitions[i].script_id
                        = sceneWorkflow'.script.id]_vars


\* the slice a reload of the operation writes is empty
SliceEmpty(w, op) ==
    CASE op \in CharacterOps \cup {"deleteCharacter"} -> w.character.characters = <<>>
      [] op \in SceneOps \cup ShotOps -> w.scene.script = NoScript
      [] op \in TransitionOps \cup {"deleteTransition"} -> w.transition.transitions = <<>>

\* C14: a load whose fetch fails leaves its slice empty (script absent, characters
\* and transitions empty), whatever the slice held before; and a loadData that
\* finds no script ends at stage 0.
C14_FailedLoadLeavesEmpty ==
    [][\A k \in BagToSet(calls) :
         /\ LoadDataCharacters(k, "error") => characterWorkflow'.characters = <<>>
         /\ LoadDataScript(k, "error") => sceneWorkflow'.script = NoScript
         /\ LoadDataTransitions(k, "error") => transitionWorkflow'.transitions = <<>>
         /\ ReloadLands(k, "error") => SliceEmpty(Workflows', k.op)
         /\ \A resp \in {"ok", "error"} :
              (LoadDataScript(k, resp) /\ sceneWorkflow'.script = NoScript) =>
                  currentStep' = 0]_vars


\* C15: the step in which a delete operation hears from the store changes no
\* slice; it issues the reload only if the store has just removed the entity,
\* and otherwise (the id is gone already, or the request failed) it leaves the
\* store alone, issues no reload and shows an error.
C15_DeleteReloadsOnlyAfterSuccess ==
    [][\A k \in At("deleting") :
         CopiesIn(k, calls') < CopiesIn(k, calls) =>
            LET r == Call(k.op, k.id, "reloading")
                issued == CopiesIn(r, calls') > CopiesIn(r, calls)
            IN /\ Workflows' = Workflows
               /\ IF InStore(k.op, k.id, store) /\ store' # store
                  THEN /\ ~InStore(k.op, k.id, store')
                       /\ issued
                       /\ notice'.kind = "success"
                  ELSE /\ store' = store
                       /\ ~issued
                       /\ notice'.kind = "error"]_vars

\* a delete has succeeded and its reload is on the way: the store has dropped the
\* entity, the slice still shows it
C15_Witness ==
    \E k \in At("reloading") :
        /\ k.op \in DeleteOps
        /\ notice.kind = "success"
        /\ ~InStore(k.op, k.id, store)
        /\ InStore(k.op, k.id, [characters |-> characterWorkflow.characters,
                                transitions |-> transitionWorkflow.transitions])


\* the optional references that the entities with this id carry in the slice
\* the operation works on
ReferencesOf(w, op, id) ==
    CASE op = "generateAvatar" ->
           { w.character.characters[i].avatar_url :
               i \in { j \in 1..Len(w.character.characters) :
                         w.character.characters[j].id = id } }
      [] op = "generateSingleKeyframe" ->
           { allShots(w.scene.script)[i].keyframe_url :
               i \in { j \in 1..Len(allShots(w.scene.script)) :
                         allShots(w.scene.script)[j].id = id } }
      [] op = "generateSingleVideo" ->
           { w.transition.transitions[i].video_url :
               i \in { j \in 1..Len(w.transition.transitions) :
                         w.transition.transitions[j].id = id } }

\* C19: when the reload that a succeeded generateOne(id) triggered lands, the
\* entity id of the slice carries a reference that is not null.
C19_RoundTrip ==
    [][\A k \in At("reloading") :
         (k.op \in GenerateOneOps /\ ReloadLands(k, "ok")) =>
            "null" \notin ReferencesOf(Workflows', k.op, k.id)]_vars

\* generateAvatar(1) has come round: character 1 shows an avatar, character 2,
\* which no job has touched, shows none
C19_Witness ==
    /\ calls = EmptyBag
    /\ characterWorkflow.generatingIds = {}
    /\ ReferencesOf(Workflows, "generateAvatar", 1) = {"url"}
    /\ ReferencesOf(Workflows, "generateAvatar", 2) = {"null"}


\* C20: whenever a load answers "ok" the slice becomes the collection the store
\* holds at that moment, whole; and whichever step changes a slice, the new
\* contents are such a collection or the empty slice, never a blend of the old
\* contents and a response.
C20_SliceIsOneResponse ==
    [][/\ \A k \in BagToSet(calls) :
            /\ LoadDataCharacters(k, "ok") =>
                  characterWorkflow'.characters = store.characters
            /\ LoadDataScript(k, "ok") => sceneWorkflow'.script = FetchScript(k.id)
            /\ LoadDataTransitions(k, "ok") =>
                  transitionWorkflow'.transitions = store.transitions
            /\ ReloadLands(k, "ok") =>
                  CASE k.op \in CharacterOps \cup {"deleteCharacter"} ->
                         characterWorkflow'.characters = store.characters
                    [] k.op \in SceneOps \cup ShotOps ->
                         sceneWorkflow'.script = store.script
                    [] k.op \in TransitionOps \cup {"deleteTransition"} ->
                         transitionWorkflow'.transitions = store.transitions
       /\ characterWorkflow'.characters # characterWorkflow.characters =>
            characterWorkflow'.characters = store.characters
       /\ sceneWorkflow'.script # sceneWorkflow.script =>
            sceneWorkflow'.script \in {store.script, NoScript}
       /\ transitionWorkflow'.transitions # transitionWorkflow.transitions =>
            transitionWorkflow'.transitions \in {store.transitions, <<>>}]_vars

\* two responses for the characters are outstanding, one of a job's reload and
\* one of loadData, while the slice holds an older response
C20_Witness ==
    /\ \E k \in At("reloading") : k.op \in CharacterOps
    /\ At("characters") # {}
    /\ characterWorkflow.characters # <<>>
    /\ characterWorkflow.characters # store.characters


\* the busy marks other than the one of this invocation
OtherMarks(w, op, id) ==
    [o \in AllOps \ {op} |-> [i \in Ids \cup {0} |-> IsBusy(w, o, i)]]
    @@ [o \in {op} |-> [i \in (IF op \in PerEntityOps THEN Ids \ {id} ELSE {}) |->
                          IsBusy(w, op, i)]]

ReloadIssued(k) ==
    CopiesIn(Call(k.op, k.id, "reloading"), calls')
        > CopiesIn(Call(k.op, k.id, "reloading"), calls)

\* C23: the callback of either terminal outcome, failure as well as success,
\* sends the reload of the affected slice, and once the callback is through the
\* busy mark of the invocation is cleared.
C23_ReloadOnEveryOutcome ==
    [][\A k \in BagToSet(calls) :
         /\ (PollerSucceeds(k) \/ PollerFails(k)) => ReloadIssued(k)
         /\ (PollerFails(k) /\ CopiesIn(k, calls) = 1) =>
               ~IsBusy(Workflows', k.op, k.id)]_vars


\* C24: while the reload that a succeeded job triggered has not landed, the busy
\* mark of the invocation is still set (the mark is cleared only after the
\* slice has been refreshed).
C24_BusyUntilReloadLands ==
    \A k \in At("reloading") :
        k.op \in AllOps \ {"generateKeyframes"} => IsBusy(Workflows, k.op, k.id)


\* the slice the operation works on holds what the store holds
SliceIsStore(w, st, op) ==
    CASE op \in CharacterOps -> w.character.characters = st.characters
      [] op \in SceneOps \cup ShotOps -> w.scene.script = st.script
      [] op \in TransitionOps -> w.transition.transitions = st.transitions

\* C25: when the last outstanding invocation ends with a succeeded job, its
\* slice holds what the store holds: either its reload has just landed, or the
\* slice was up to date before the job and still is after it.
C25_QuiescentSliceIsStore ==
    [][\A k \in BagToSet(calls) :
         (k.op \in AllOps /\ calls' = EmptyBag) =>
            /\ ReloadLands(k, "ok") => SliceIsStore(Workflows', store', k.op)
            /\ (PollerSucceeds(k) /\ SliceIsStore(Workflows, store, k.op)) =>
                  SliceIsStore(Workflows', store', k.op)]_vars


\* invocations of the operation for the id whose submission or job is outstanding
InFlight(op, id) ==
    Copies(calls, Call(op, id, "submitting")) + Copies(calls, Call(op, id, "polling"))

\* C26: for every operation that keeps a busy mark, the mark of an id is set
\* while a submission or a job for the id is outstanding, and it is set only
\* while some invocation for the id has not finished (its submission, its job
\* or the reload after its job).
C26_BusyIffInFlight ==
    \A op \in AllOps \ {"generateKeyframes"} :
        \A id \in (IF op \in PerEntityOps THEN Ids ELSE {0}) :
            /\ InFlight(op, id) > 0 => IsBusy(Workflows, op, id)
            /\ IsBusy(Workflows, op, id) =>
                  InFlight(op, id) + Copies(calls, Call(op, id, "reloading")) > 0


\* C27: when nothing is outstanding, the script slice is absent or holds the
\* script of the chapter that is selected: no late reload of a job and no late
\* response of a load for a chapter selected earlier has put that chapter's
\* script into the slice.
C27_ScriptOfSelectedChapter ==
    calls = EmptyBag =>
        \/ sceneWorkflow.script = NoScript
        \/ sceneWorkflow.script.chapter_id = selectedChapterId


\* the loadData runs that have passed their first await and not yet ended
LoadDataRuns == { k \in BagToSet(calls) : k.op = "loadData" }

\* every loadData run that did not return early ends with currentStep
\* recomputed from the slices it leaves behind
LoadDataEndsWithStep ==
    [][\A k \in LoadDataRuns : LoadDataEnds(k) => currentStep' = DeriveStage(Workflows')]_vars

\* C28: the loading flag is true whenever a loadData run is in progress, also
\* when runs overlap: loading is false only when no loadData run is outstanding
C28_LoadingWhileLoadDataRuns == LoadDataRuns # {} => loading

(***************************************************************************)
(* The enabling guards of useMovieWorkflow                                 *)
(***************************************************************************)
canExtractScenes(w) == Len(w.character.characters) > 0

canExtractShots(w) == w.scene.script # NoScript /\ Len(w.scene.script.scenes) > 0

canGenerateKeyframes(w) ==
    /\ Len(allShots(w.scene.script)) > 0
    /\ \A i \in 1..Len(w.character.characters) : w.character.characters[i].avatar_url # Null

canCreateTransitions(w) == EveryHasKeyframe(allShots(w.scene.script))

canGenerateTransitionVideos(w) == Len(w.transition.transitions) > 0

\* C30: canCreateTransitions holds only where at least one shot exists and
\* every shot has a keyframe (derived stage >= 4), and canGenerateKeyframes
\* holds only where at least one shot exists (derived stage >= 3)
C30_GuardsMatchStage ==
    /\ canCreateTransitions(Workflows) =>
          /\ Len(allShots(sceneWorkflow.script)) > 0
          /\ EveryHasKeyframe(allShots(sceneWorkflow.script))
          /\ DeriveStage(Workflows) >= 4
    /\ canGenerateKeyframes(Workflows) =>
          /\ Len(allShots(sceneWorkflow.script)) > 0
          /\ DeriveStage(Workflows) >= 3

(***************************************************************************)
(* The workflow panels of the DirectorEngine view                          *)
(***************************************************************************)
\* the step whose panel (v-show="currentStep === n") carries the operation's button
PanelStep(op) ==
    CASE op \in {"extractCharacters", "batchGenerateAvatars"} -> 0
      [] op = "extractScenes" -> 1
      [] op = "extractShots" -> 2
      [] op = "generateKeyframes" -> 3
      [] op \in {"createTransitions", "generateTransitionVideos"} -> 4

\* the prop that enables the operation's button (:disabled="!can...")
PanelGuard(op, w) ==
    CASE op = "extractCharacters" -> w.scene.script # NoScript
      [] op = "batchGenerateAvatars" -> Len(w.character.characters) > 0
      [] op = "extractScenes" -> canExtractScenes(w)
      [] op = "extractShots" -> canExtractShots(w)
      [] op = "generateKeyframes" -> canGenerateKeyframes(w)
      [] op = "createTransitions" -> canCreateTransitions(w)
      [] op = "generateTransitionVideos" -> canGenerateTransitionVideos(w)

\* the operation's button is shown and can be pressed
Presented(op, step, w) == step = PanelStep(op) /\ PanelGuard(op, w)

\* the operation whose success moves the derived stage on from stage
AdvancingOp(stage) ==
    CASE stage \in {0, 1} -> "extractScenes"
      [] stage = 2 -> "extractShots"
      [] stage = 3 -> "generateKeyframes"
      [] stage = 4 -> "createTransitions"

\* C29: in every stage k < 5 with no job in flight the operation whose success
\* advances the derived stage is presented and enabled by the guards and the
\* per-step panel visibility, so that the pipeline can always progress
C29_AdvancingOperationPresented ==
    (calls = EmptyBag /\ DeriveStage(Workflows) < 5) =>
        Presented(AdvancingOp(DeriveStage(Workflows)), currentStep, Workflows)

\* the shots of script that bound the transition t
BoundingShots(t, script) ==
    { allShots(script)[i] : i \in { j \in 1..Len(allShots(script)) :
                                      allShots(script)[j].id \in {t.from_shot, t.to_shot} } }

====
